---- MODULE Spec2Model ----
(***************************************************************************)
(* The "create" subcommands of openshift-install                           *)
(* (cmd/openshift-install/create.go): runTargetCmd, which fetches and      *)
(* persists the assets of a target, and destroyBootstrap, the PostRunE of  *)
(* the cluster target, which waits for the Kubernetes API, then for the    *)
(* bootstrap-complete event, and then destroys the bootstrap resources.    *)
(*                                                                         *)
(* Time is counted in seconds.  An error is the chain of its frames,       *)
(* outermost first, as errors.Wrap builds it; nil is the empty chain.      *)
(***************************************************************************)
EXTENDS Integers, Sequences, FiniteSets, TLC

VARIABLES
    target,               \* the target whose command runs (create.go:102)
    pc,                   \* position of the command in its code
    idx,                  \* runTargetCmd: index of the asset of the loop at line 135
    err,                  \* runTargetCmd: err of the loop body (lines 136-142)
    calls,                \* the Fetch and PersistToFile calls made, in order
    logged,               \* the log lines the last step emitted
    runErr,               \* what RunE (runTargetCmd's closure) returned
    stores,               \* the Stores made so far (line 130)
    cache,                \* the identities in the cache of assetStore
    resolutions,          \* history: the resolutions invoked, per identity
    now,                  \* the clock, in seconds
    apiContext,           \* context of the API wait (line 184)
    eventContext,         \* context of the event wait (line 216)
    apiUp,                \* a ServerVersion query has succeeded
    timer,                \* wait.Until: when the period timer fires
    silenceRemaining,     \* line 190
    previousErrorSuffix,  \* line 191
    failedPolls,          \* history: the ServerVersion queries that failed so far
    lastSuffix,           \* history: the error suffix of the last failed query
    sinceLogged,          \* history: failed queries since the last one that logged
    cursor,               \* Until: the resource version the watch resumes from
    sinceResourceVersion, \* the opener's parameter (line 221)
    attempts,             \* failed connection attempts of the running opener call
    watchRV,              \* ResourceVersion of the last Watch call (line 224)
    untilErr,             \* what Until returned
    sleepUntil,           \* the opener's time.Sleep ends then (line 234)
    lastEvent,            \* the watch event the predicate was last given
    verdict,              \* what the predicate returned for lastEvent
    destroyed,            \* destroybootstrap.Destroy has been invoked
    postErr,              \* what PostRunE (destroyBootstrap) returned
    aConfig,              \* InstallConfig.Config of the asset a (variables.tf:75)
    aFile,                \* InstallConfig.File of the asset a (variables.tf:76)
    icLast,               \* the last call on a, with what it was given and returned
    icCalls,              \* the calls made on a
    icSucceeded,          \* history: a Generate or a Load on a has succeeded
    icPanicked            \* a call on a has panicked

vars == <<target, pc, idx, err, calls, logged, runErr, stores, cache, resolutions, now, apiContext,
          eventContext, apiUp, timer, silenceRemaining, previousErrorSuffix,
          failedPolls, lastSuffix, sinceLogged, cursor, sinceResourceVersion,
          attempts, watchRV, untilErr,
          sleepUntil, lastEvent, verdict, destroyed, postErr,
          aConfig, aFile, icLast, icCalls, icSucceeded, icPanicked>>

icVars == <<aConfig, aFile, icLast, icCalls, icSucceeded, icPanicked>>
storeVars == <<stores, cache, resolutions>>

rtVars == <<idx, err, calls, runErr, storeVars>>
pollHistory == <<failedPolls, lastSuffix, sinceLogged>>
dbVars == <<now, apiContext, eventContext, apiUp, timer, silenceRemaining,
            previousErrorSuffix, pollHistory, cursor, sinceResourceVersion, attempts,
            watchRV, untilErr, sleepUntil, lastEvent, verdict, destroyed, postErr>>

----------------------------------------------------------------------------
(* Bounds and program constants *)

\* apiTimeout of line 182 (30 minutes), scaled down to seconds the model can
\* walk through.
apiTimeout == 5
\* eventTimeout of line 214 (30 minutes), scaled down likewise.
eventTimeout == 3
\* The watch events the server delivers in one run, at most.
MaxEvents == 2
\* The period of wait.Until, 2*time.Second (line 210).
pollPeriod == 2
\* The opener's time.Sleep(2 * time.Second) (line 234).
retrySleep == 2
\* logDownsample (line 189).
logDownsample == 15

----------------------------------------------------------------------------
(* Errors *)

Nil == <<>>

Frame(m, a) == [msg |-> m, arg |-> a]

\* errors.Wrap(e, m) / errors.Wrapf(e, m, a): a new outermost frame.
Wrap(e, m, a) == <<Frame(m, a)>> \o e

\* errors.Cause(e): the innermost frame.
Cause(e) == e[Len(e)]

LogLine(level, m, a) == [level |-> level, msg |-> m, arg |-> a]

----------------------------------------------------------------------------
(* Targets *)

\* The assets of each target, in declared order (lines 41-100).
TargetAssets ==
    [ installConfigTarget     |-> <<"installconfig.InstallConfig">>,
      manifestTemplatesTarget |-> <<"templates.Templates">>,
      manifestsTarget         |-> <<"manifests.Manifests", "manifests.Openshift">>,
      ignitionConfigsTarget   |-> <<"bootstrap.Bootstrap", "machine.Master",
                                     "machine.Worker">>,
      clusterTarget           |-> <<"cluster.TerraformVariables", "kubeconfig.Admin",
                                     "cluster.Cluster">> ]

\* targets (line 102).
targets == DOMAIN TargetAssets

\* Whether the target's command has a PostRunE (lines 91-97).
HasPostRunE(t) == t = "clusterTarget"

----------------------------------------------------------------------------
(* The Store and the dependency graph *)

\* The set of the elements of a sequence.
Range(f) == {f[i] : i \in 1..Len(f)}

\* Mutation of Dependencies: the platform is not declared.
DependenciesNoPlatform ==
    <<"clusterID", "emailAddress", "password", "sshPublicKey", "baseDomain",
      "clusterName", "pullSecret">>

\* InstallConfig.Dependencies (data/data/aws/vpc/variables.tf, lines 83-94).
Dependencies ==
    <<"clusterID", "emailAddress", "password", "sshPublicKey", "baseDomain",
      "clusterName", "pullSecret", "platform">>

\* The roots of all targets.
Roots == UNION {Range(TargetAssets[t]) : t \in targets}

\* The identities of the assets.
Identities == Roots \cup Range(Dependencies)

\* The dependencies of each asset.  Those of InstallConfig are in the source;
\* the Dependencies of the other roots are not: every one of them is taken to
\* depend on the install config, and the cluster also on two other roots of
\* its target, so that identities are reached from two roots and by two paths.
DependencyGraph(a) ==
    CASE a = "installconfig.InstallConfig" -> Range(Dependencies)
      [] a = "cluster.Cluster" ->
            {"installconfig.InstallConfig", "cluster.TerraformVariables", "kubeconfig.Admin"}
      [] a \in Roots \ {"installconfig.InstallConfig", "cluster.Cluster"} ->
            {"installconfig.InstallConfig"}
      [] OTHER -> {}

\* The asset and everything it depends on.
RECURSIVE Closure(_)
Closure(a) == {a} \cup UNION {Closure(d) : d \in DependencyGraph(a)}

\* Store.Fetch(a) on a Store whose cache holds c: the identities whose
\* resolution (Load or Generate) it invokes, once each, and the cache after
\* it, which holds every identity resolved, successfully or not.
StoreResolves(c, a) == Closure(a) \ c

StoreCache(c, a) == c \cup Closure(a)

\* Mutation of FetchCache: every Fetch goes through a Store of its own.
FetchCacheFresh(c) == {}

\* Lines 130-136: the cache of the Store the Fetch of the loop goes through,
\* c being the cache of assetStore.
FetchCache(c) == c

----------------------------------------------------------------------------
(* runTargetCmd (lines 122-159) *)

\* What the calls runTargetCmd makes can return.  The functions themselves
\* (setupFileHook, asset.NewStore, Store.Fetch, asset.PersistToFile) are
\* outside this file; every outcome their signature allows is an input.
ExitError(stderr) == Frame("*exec.ExitError", stderr)

Stderrs == {"", "terraform: boom\n"}

FetchOutcomes ==
    {Nil, <<Frame("generate failed", "")>>}
        \cup {<<Frame("failed to generate asset", ""), ExitError(s)>> : s \in Stderrs}

PersistOutcomes == {Nil, <<Frame("permission denied", "")>>}

SetupOutcomes == {"ok", "setupFileHook", "NewStore"}

\* strings.Trim(s, "\n") on the stderr texts above.
Trim(s) == IF s = "terraform: boom\n" THEN "terraform: boom" ELSE s

\* Lines 138-140: the stderr of a failed external command is logged.
FetchLog(e) ==
    IF e # Nil /\ Cause(e).msg = "*exec.ExitError" /\ Cause(e).arg # ""
    THEN <<LogLine("error", "stderr", Trim(Cause(e).arg))>>
    ELSE <<>>

\* Lines 136-142: err after the Fetch of asset a returned e.
FetchErr(e, a) == IF e # Nil THEN Wrap(e, "failed to fetch", a) ELSE Nil

\* Line 145: err2 after PersistToFile of asset a returned e2 (non-nil).
PersistErr(e2, a) == Wrap(e2, "failed to write asset to disk", a)

\* Mutation of PersistFailureReturn: the write error is returned whatever the
\* fetch did.
PersistFailureReturnWrite(e, e2) == e2

\* Lines 146-150: what is returned when PersistToFile failed with err2 (wrapped)
\* and the fetch had left e.
PersistFailureReturn(e, e2) == IF e # Nil THEN e ELSE e2

\* Lines 146-148: what is logged then.
PersistFailureLog(e, e2) ==
    IF e # Nil THEN <<LogLine("error", "err2", e2[1].arg)>> ELSE <<>>

\* Mutation of ReturnsAfterPersist: lines 153-155 left out.
ReturnsAfterPersistNever(e) == FALSE

\* Lines 153-155: whether the loop body returns err after a successful
\* PersistToFile.
ReturnsAfterPersist(e) == e # Nil

Assets == TargetAssets[target]

Call(f, a, e) == [fn |-> f, asset |-> a, ok |-> (e = Nil)]

\* Lines 124-133.
RunTargetSetup ==
    /\ pc = "rt_setup"
    /\ \E o \in SetupOutcomes :
          \/ /\ o = "setupFileHook"
             /\ runErr' = Wrap(<<Frame("hook", "")>>, "failed to setup logging hook", "")
             /\ pc' = "rt_returned"
             /\ idx' = idx
             /\ UNCHANGED <<stores, cache>>
          \/ /\ o = "NewStore"
             /\ runErr' = Wrap(<<Frame("store", "")>>, "failed to create asset store", "")
             /\ pc' = "rt_returned"
             /\ idx' = idx
             /\ UNCHANGED <<stores, cache>>
          \/ /\ o = "ok"
             /\ stores' = stores + 1
             /\ cache' = {}
             /\ idx' = 1
             /\ pc' = "rt_fetch"
             /\ runErr' = runErr
    /\ logged' = <<>>
    /\ UNCHANGED <<icVars, target, err, calls, resolutions>>
    /\ UNCHANGED dbVars

\* Lines 135-142: the next asset of the loop is fetched.
RunTargetFetch ==
    /\ pc = "rt_fetch"
    /\ idx <= Len(Assets)
    /\ \E e \in FetchOutcomes :
          /\ calls' = Append(calls, Call("Fetch", Assets[idx], e))
          /\ logged' = FetchLog(e)
          /\ err' = FetchErr(e, Assets[idx])
    /\ resolutions' =
          [id \in Identities |->
              IF id \in StoreResolves(FetchCache(cache), Assets[idx])
              THEN resolutions[id] + 1
              ELSE resolutions[id]]
    /\ cache' = StoreCache(FetchCache(cache), Assets[idx])
    /\ pc' = "rt_persist"
    /\ UNCHANGED <<icVars, target, idx, runErr, stores>>
    /\ UNCHANGED dbVars

\* Mutation of NextIndex: every other asset is skipped.
NextIndexSkip(i) == i + 2

\* Line 135: the range loop goes on with the next asset.
NextIndex(i) == i + 1

\* Lines 144-155: the asset is persisted, and the loop body returns or goes on.
RunTargetPersist ==
    /\ pc = "rt_persist"
    /\ \E e2 \in PersistOutcomes :
          /\ calls' = Append(calls, Call("PersistToFile", Assets[idx], e2))
          /\ IF e2 # Nil
             THEN /\ logged' = PersistFailureLog(err, PersistErr(e2, Assets[idx]))
                  /\ runErr' = PersistFailureReturn(err, PersistErr(e2, Assets[idx]))
                  /\ pc' = "rt_returned"
                  /\ idx' = idx
             ELSE /\ logged' = <<>>
                  /\ IF ReturnsAfterPersist(err)
                     THEN /\ runErr' = err
                          /\ pc' = "rt_returned"
                          /\ idx' = idx
                     ELSE /\ runErr' = runErr
                          /\ pc' = "rt_fetch"
                          /\ idx' = NextIndex(idx)
    /\ UNCHANGED <<icVars, target, err>>
    /\ UNCHANGED storeVars
    /\ UNCHANGED dbVars

\* Line 157: the loop is over.
RunTargetReturnNil ==
    /\ pc = "rt_fetch"
    /\ idx > Len(Assets)
    /\ runErr' = Nil
    /\ pc' = "rt_returned"
    /\ logged' = <<>>
    /\ UNCHANGED <<icVars, target, idx, err, calls>>
    /\ UNCHANGED storeVars
    /\ UNCHANGED dbVars

\* The command's PostRunE runs when RunE returned nil (lines 91-97); a command
\* without one, or whose RunE failed, is over.
PostRun ==
    /\ pc = "rt_returned"
    /\ pc' = IF HasPostRunE(target) /\ runErr = Nil THEN "db_setup" ELSE "exit"
    /\ logged' = <<>>
    /\ UNCHANGED <<icVars, target>>
    /\ UNCHANGED rtVars
    /\ UNCHANGED dbVars

----------------------------------------------------------------------------
(* Contexts *)

\* A context that has not been made yet.
NoContext == [made |-> FALSE, parent |-> "ctx", deadline |-> 0, cancelled |-> FALSE]

\* context.WithTimeout(parent, d), called at time t.
WithTimeout(parent, d, t) ==
    [made |-> TRUE, parent |-> parent, deadline |-> t + d, cancelled |-> FALSE]

\* cancel().
Cancel(c) == [c EXCEPT !.cancelled = TRUE]

\* Whether <-c.Done() is ready: c was cancelled, its deadline has passed, or
\* its parent is done.  ctx is the context.Background() of line 92.
OwnDone(c) == c.made /\ (c.cancelled \/ now >= c.deadline)

Done(c) ==
    \/ OwnDone(c)
    \/ c.made /\ c.parent = "apiContext" /\ OwnDone(apiContext)

----------------------------------------------------------------------------
(* destroyBootstrap: the wait for the Kubernetes API (lines 163-210) *)

DestroySetupOutcomes == {"ok", "setupFileHook", "BuildConfigFromFlags", "NewForConfig"}

\* Lines 166, 172, 177: how the error of each failed call is wrapped.
DestroySetupWrap(o) ==
    CASE o = "setupFileHook" -> "failed to setup logging hook"
      [] o = "BuildConfigFromFlags" -> "loading kubeconfig"
      [] o = "NewForConfig" -> "creating a Kubernetes client"

\* The messages of the errors of discovery.ServerVersion(), as their pieces
\* around each ":".
VersionErrors ==
    { <<"Get https", ":", "//api/version", ":", " EOF">>,
      <<"Post https", ":", "//api/version", ":", " EOF">>,
      <<"unexpected end", ":">>,
      <<"timeout">> }

\* The last chunk of strings.Split(m, ":") (lines 199-200).
RECURSIVE ErrorSuffix(_)
ErrorSuffix(m) ==
    IF \A i \in 1..Len(m) : m[i] # ":"
    THEN m
    ELSE ErrorSuffix(Tail(m))

\* Lines 164-191.
DestroyBootstrapSetup ==
    /\ pc = "db_setup"
    /\ \E o \in DestroySetupOutcomes :
          IF o = "ok"
          THEN /\ apiContext' = WithTimeout("ctx", apiTimeout, now)
               /\ silenceRemaining' = logDownsample
               /\ previousErrorSuffix' = <<>>
               /\ logged' = <<LogLine("info", "Waiting for the Kubernetes API...", "")>>
               /\ pc' = "api_check"
               /\ postErr' = postErr
          ELSE /\ postErr' = Wrap(<<Frame(o, "")>>, DestroySetupWrap(o), "")
               /\ logged' = <<>>
               /\ pc' = "exit"
               /\ UNCHANGED <<apiContext, silenceRemaining, previousErrorSuffix>>
    /\ UNCHANGED <<icVars, target, now, eventContext, apiUp, timer, cursor,
                   sinceResourceVersion, attempts, watchRV, untilErr, sleepUntil,
                   lastEvent, verdict, destroyed>>
    /\ UNCHANGED pollHistory
    /\ UNCHANGED rtVars

\* wait.Until (line 192): before each call of the function, the stop channel
\* is looked at.
PollCheck ==
    /\ pc = "api_check"
    /\ pc' = IF Done(apiContext) THEN "event_setup" ELSE "api_query"
    /\ logged' = <<>>
    /\ UNCHANGED <<icVars, target>>
    /\ UNCHANGED rtVars
    /\ UNCHANGED dbVars

\* Lines 193-209: the polled function, with the answer of ServerVersion.
PollQuery ==
    /\ pc = "api_query"
    /\ \/ /\ apiUp' = TRUE
          /\ apiContext' = Cancel(apiContext)
          /\ logged' = <<LogLine("info", "API up", "")>>
          /\ UNCHANGED <<silenceRemaining, previousErrorSuffix>>
          /\ UNCHANGED pollHistory
       \/ \E m \in VersionErrors :
             /\ IF previousErrorSuffix # ErrorSuffix(m)
                THEN /\ logged' = <<LogLine("debug", "Still waiting for the Kubernetes API", "")>>
                     /\ previousErrorSuffix' = ErrorSuffix(m)
                     /\ silenceRemaining' = logDownsample
                ELSE IF silenceRemaining - 1 = 0
                THEN /\ logged' = <<LogLine("debug", "Still waiting for the Kubernetes API", "")>>
                     /\ silenceRemaining' = logDownsample
                     /\ previousErrorSuffix' = previousErrorSuffix
                ELSE /\ logged' = <<>>
                     /\ silenceRemaining' = silenceRemaining - 1
                     /\ previousErrorSuffix' = previousErrorSuffix
             /\ failedPolls' = failedPolls + 1
             /\ lastSuffix' = ErrorSuffix(m)
             /\ sinceLogged' = IF logged' # <<>> THEN 0 ELSE sinceLogged + 1
             /\ UNCHANGED <<apiUp, apiContext>>
    /\ timer' = now + pollPeriod
    /\ pc' = "api_wait"
    /\ UNCHANGED <<icVars, target, now, eventContext, cursor, sinceResourceVersion, attempts,
                   watchRV, untilErr, sleepUntil, lastEvent, verdict,
                   destroyed, postErr>>
    /\ UNCHANGED rtVars

\* wait.Until: after the call, the stop channel or the period timer, whichever
\* is ready.
PollWait ==
    /\ pc = "api_wait"
    /\ \/ Done(apiContext) /\ pc' = "event_setup"
       \/ now >= timer /\ pc' = "api_check"
    /\ logged' = <<>>
    /\ UNCHANGED <<icVars, target>>
    /\ UNCHANGED rtVars
    /\ UNCHANGED dbVars

----------------------------------------------------------------------------
(* destroyBootstrap: the wait for the bootstrap-complete event (lines 212-263) *)

\* Mutation of EventContextParent: the event context made from apiContext.
EventContextParentApi == "apiContext"

\* Line 216: the context the event context derives from.
EventContextParent == "ctx"

\* Lines 212-220: the event context is made and Until is called with the empty
\* resource version, written 0.
EventWaitStart ==
    /\ pc = "event_setup"
    /\ eventContext' = WithTimeout(EventContextParent, eventTimeout, now)
    /\ cursor' = 0
    /\ logged' = <<LogLine("info", "Waiting for the bootstrap-complete event...", "")>>
    /\ pc' = "until_connect"
    /\ UNCHANGED <<icVars, target, now, apiContext, apiUp, timer, silenceRemaining,
                   previousErrorSuffix, sinceResourceVersion, attempts, watchRV,
                   untilErr, sleepUntil, lastEvent, verdict, destroyed,
                   postErr>>
    /\ UNCHANGED pollHistory
    /\ UNCHANGED rtVars

\* The watch events the stream can deliver: a type, and an object that is an
\* Event (with its name) or something else, as the Status of an error event.
EventNames == {"bootstrap-complete", "bootstrap-complete-2", "bootstrap-success"}

WatchTypes == {"ADDED", "MODIFIED", "DELETED", "ERROR"}

Objects == {[kind |-> "Event", name |-> n] : n \in EventNames}
               \cup {[kind |-> "Status", name |-> ""]}

WatchEvents == {[type |-> t, object |-> o] : t \in WatchTypes, o \in Objects}

NoEvent == [type |-> "", object |-> [kind |-> "", name |-> ""]]

Verdict(d, l) == [done |-> d, err |-> Nil, log |-> l]

\* Mutation of IsBootstrapComplete: the name compared by its beginning.
IsBootstrapCompletePrefix(name) == name \in {"bootstrap-complete", "bootstrap-complete-2"}

\* Line 254: the comparison of the event's name.
IsBootstrapComplete(name) == name = "bootstrap-complete"

\* Lines 249-251: events of another type than Added are passed over.
AddedOnly(type) == type = "ADDED"

\* Lines 238-255: the predicate, with the lines it logs.
Predicate(watchEvent) ==
    IF watchEvent.object.kind # "Event"
    THEN Verdict(FALSE, <<>>)
    ELSE IF watchEvent.type = "ERROR"
    THEN Verdict(FALSE, <<LogLine("debug", "error", watchEvent.object.name)>>)
    ELSE IF ~AddedOnly(watchEvent.type)
    THEN Verdict(FALSE, <<>>)
    ELSE Verdict(IsBootstrapComplete(watchEvent.object.name),
                 <<LogLine("debug", "added", watchEvent.object.name)>>)

\* The error of an Until that ran out of time.
ErrWaitTimeout == <<Frame("timed out waiting for the condition", "")>>

\* Until connects, or connects again: the opener is called with the cursor.
UntilConnect ==
    /\ pc = "until_connect"
    /\ sinceResourceVersion' = cursor
    /\ attempts' = 0
    /\ pc' = "open_watch"
    /\ logged' = <<>>
    /\ UNCHANGED <<icVars, target, now, apiContext, eventContext, apiUp, timer,
                   silenceRemaining, previousErrorSuffix, cursor, watchRV, untilErr,
                   sleepUntil, lastEvent, verdict, destroyed, postErr>>
    /\ UNCHANGED pollHistory
    /\ UNCHANGED rtVars

\* Mutation of OpenerGivesUp: the opener returns the error of the first
\* failed Watch.
OpenerGivesUpAtOnce(c) == TRUE

\* Lines 229-231: after a failed Watch the opener returns the error when the
\* event context is done.
OpenerGivesUp(c) == Done(c)

\* Line 234: when the sleep begun at t ends.
SleepEnd(t) == t + retrySleep

\* Mutation of OpenerResourceVersion: every attempt watches from the start.
OpenerResourceVersionEmpty(since) == 0

\* Lines 223-225: the ResourceVersion of the ListOptions of a Watch call of an
\* opener that was handed since.
OpenerResourceVersion(since) == since

\* Lines 222-235: one turn of the opener's loop, with the answer of Watch.
OpenerWatch ==
    /\ pc = "open_watch"
    /\ watchRV' = OpenerResourceVersion(sinceResourceVersion)
    /\ \/ /\ pc' = "streaming"
          /\ logged' = <<>>
          /\ attempts' = 0
          /\ UNCHANGED <<untilErr, sleepUntil>>
       \/ /\ OpenerGivesUp(eventContext)
          /\ pc' = "open_failed"
          /\ logged' = <<>>
          /\ attempts' = 0
          /\ UNCHANGED <<untilErr, sleepUntil>>
       \/ /\ ~OpenerGivesUp(eventContext)
          /\ logged' = <<LogLine("warning", "Failed to connect events watcher", "")>>
          /\ sleepUntil' = SleepEnd(now)
          /\ pc' = "open_sleep"
          /\ attempts' = attempts + 1
          /\ UNCHANGED untilErr
    /\ UNCHANGED <<icVars, target, now, apiContext, eventContext, apiUp, timer,
                   silenceRemaining, previousErrorSuffix, cursor,
                   sinceResourceVersion, lastEvent, verdict, destroyed,
                   postErr>>
    /\ UNCHANGED pollHistory
    /\ UNCHANGED rtVars

\* Until, connecting: the opener returned an error, and Until fails.
UntilOpenFailed ==
    /\ pc = "open_failed"
    /\ untilErr' = ErrWaitTimeout
    /\ pc' = "until_return"
    /\ logged' = <<>>
    /\ UNCHANGED <<icVars, target, now, apiContext, eventContext, apiUp, timer,
                   silenceRemaining, previousErrorSuffix, cursor,
                   sinceResourceVersion, attempts, watchRV, sleepUntil, lastEvent,
                   verdict, destroyed, postErr>>
    /\ UNCHANGED pollHistory
    /\ UNCHANGED rtVars

\* Line 234: time.Sleep returns when its time is over, and the loop turns.
OpenerSleep ==
    /\ pc = "open_sleep"
    /\ now >= sleepUntil
    /\ pc' = "open_watch"
    /\ logged' = <<>>
    /\ UNCHANGED <<icVars, target>>
    /\ UNCHANGED rtVars
    /\ UNCHANGED dbVars

\* Until, streaming: the next event advances the cursor and is given to the
\* predicate; done ends Until with success, an error of the predicate with
\* that error.
StreamDeliver ==
    /\ pc = "streaming"
    /\ cursor < MaxEvents
    /\ \E we \in WatchEvents :
          /\ lastEvent' = we
          /\ verdict' = Predicate(we)
          /\ logged' = Predicate(we).log
          /\ IF Predicate(we).err # Nil
             THEN untilErr' = Predicate(we).err /\ pc' = "until_return"
             ELSE IF Predicate(we).done
             THEN untilErr' = Nil /\ pc' = "until_return"
             ELSE untilErr' = untilErr /\ pc' = "streaming"
    /\ cursor' = cursor + 1
    /\ UNCHANGED <<icVars, target, now, apiContext, eventContext, apiUp, timer,
                   silenceRemaining, previousErrorSuffix, sinceResourceVersion,
                   attempts, watchRV, sleepUntil, destroyed, postErr>>
    /\ UNCHANGED pollHistory
    /\ UNCHANGED rtVars

\* Until, streaming: the stream closes, and Until connects again.
StreamClosed ==
    /\ pc = "streaming"
    /\ pc' = "until_connect"
    /\ logged' = <<>>
    /\ UNCHANGED <<icVars, target>>
    /\ UNCHANGED rtVars
    /\ UNCHANGED dbVars

\* Until, streaming: the context is done, and Until fails with a timeout.
StreamTimeout ==
    /\ pc = "streaming"
    /\ Done(eventContext)
    /\ untilErr' = ErrWaitTimeout
    /\ pc' = "until_return"
    /\ logged' = <<>>
    /\ UNCHANGED <<icVars, target, now, apiContext, eventContext, apiUp, timer,
                   silenceRemaining, previousErrorSuffix, cursor,
                   sinceResourceVersion, attempts, watchRV, sleepUntil,
                   lastEvent, verdict, destroyed, postErr>>
    /\ UNCHANGED pollHistory
    /\ UNCHANGED rtVars

DestroyOutcomes == {Nil, <<Frame("terraform destroy failed", "")>>}

\* Lines 257-263, with the deferred cancels of lines 185 and 217.
AfterUntil ==
    /\ pc = "until_return"
    /\ IF untilErr # Nil
       THEN /\ postErr' = Wrap(untilErr, "waiting for bootstrap-complete", "")
            /\ logged' = <<>>
            /\ destroyed' = destroyed
       ELSE /\ logged' = <<LogLine("info", "Destroying the bootstrap resources...", "")>>
            /\ destroyed' = TRUE
            /\ \E e \in DestroyOutcomes : postErr' = e
    /\ apiContext' = Cancel(apiContext)
    /\ eventContext' = Cancel(eventContext)
    /\ pc' = "exit"
    /\ UNCHANGED <<icVars, target, now, apiUp, timer, silenceRemaining, previousErrorSuffix,
                   cursor, sinceResourceVersion, attempts, watchRV, untilErr,
                   sleepUntil, lastEvent, verdict>>
    /\ UNCHANGED pollHistory
    /\ UNCHANGED rtVars

\* A second passes while the command waits: for the poll's timer or stop
\* channel, in the opener's sleep, or for the stream.  A wait whose context is
\* done is over at once.
Tick ==
    /\ \/ pc = "api_wait" /\ ~Done(apiContext)
       \/ pc = "open_sleep" /\ now < sleepUntil
       \/ pc = "streaming" /\ ~Done(eventContext)
    /\ now' = now + 1
    /\ logged' = <<>>
    /\ UNCHANGED <<icVars, target, pc, apiContext, eventContext, apiUp, timer, silenceRemaining,
                   previousErrorSuffix, cursor, sinceResourceVersion, attempts,
                   watchRV, untilErr, sleepUntil, lastEvent, verdict,
                   destroyed, postErr>>
    /\ UNCHANGED pollHistory
    /\ UNCHANGED rtVars

----------------------------------------------------------------------------
(* The InstallConfig asset (the Go source in data/data/aws/vpc/variables.tf,   *)
(* lines 47-217)                                                            *)

\* The calls made on one asset, at most.
MaxCalls == 3

\* installConfigFilename (line 64).
installConfigFilename == "install-config.yml"

\* The platform asset: each of its variants is nil or set.
Platforms ==
    [AWS : {"nil", "aws"}, OpenStack : {"nil", "openstack"}, Libvirt : {"nil", "libvirt"}]

NoPlatform == [AWS |-> "nil", OpenStack |-> "nil", Libvirt |-> "nil"]

\* A nil *types.InstallConfig.
NoConfig ==
    [set |-> FALSE, Name |-> "", AWS |-> "nil", OpenStack |-> "nil",
     Libvirt |-> "nil", Machines |-> <<>>]

\* A nil *asset.File.
NoFile == [set |-> FALSE, Filename |-> "", Data |-> [wellFormed |-> FALSE, doc |-> NoConfig]]

File(name, data) == [set |-> TRUE, Filename |-> name, Data |-> data]

\* Lines 98-115: the assets Generate asks its parents for.
GenerateGets ==
    <<"clusterID", "emailAddress", "password", "sshPublicKey", "baseDomain",
      "clusterName", "pullSecret", "platform">>

\* Lines 117-142: the config before its platform and machines are set.
BaseConfig ==
    [set |-> TRUE, Name |-> "test-cluster", AWS |-> "nil", OpenStack |-> "nil",
     Libvirt |-> "nil", Machines |-> <<>>]

\* Mutation of ChosenPlatform: Libvirt is looked at first.
ChosenPlatformLibvirtFirst(p) ==
    CASE p.Libvirt # "nil" -> "Libvirt"
      [] p.AWS # "nil" -> "AWS"
      [] p.OpenStack # "nil" -> "OpenStack"
      [] OTHER -> "unknown"

\* Lines 146-157: the case of the switch that is taken.
ChosenPlatform(p) ==
    CASE p.AWS # "nil" -> "AWS"
      [] p.OpenStack # "nil" -> "OpenStack"
      [] p.Libvirt # "nil" -> "Libvirt"
      [] OTHER -> "unknown"

\* Lines 147-152: the platform section the case sets.
WithPlatform(c, p) ==
    CASE ChosenPlatform(p) = "AWS" -> [c EXCEPT !.AWS = p.AWS]
      [] ChosenPlatform(p) = "OpenStack" -> [c EXCEPT !.OpenStack = p.OpenStack]
      [] ChosenPlatform(p) = "Libvirt" -> [c EXCEPT !.Libvirt = p.Libvirt]
      [] OTHER -> c

\* Lines 144-145, 153-154: numberOfMasters and numberOfWorkers.
Replicas(p) == IF ChosenPlatform(p) = "Libvirt" THEN 1 ELSE 3

\* Lines 159-168.
MachinePools(p) ==
    << [Name |-> "master", Replicas |-> Replicas(p)],
       [Name |-> "worker", Replicas |-> Replicas(p)] >>

\* yaml.Marshal and yaml.Unmarshal: the bytes of a document hold the document;
\* other bytes are not well formed.
Marshal(c) == [wellFormed |-> TRUE, doc |-> c]

Unmarshal(d) ==
    IF d.wellFormed
    THEN [err |-> Nil, config |-> d.doc]
    ELSE [err |-> <<Frame("yaml: error converting YAML to JSON", "")>>, config |-> NoConfig]

\* What a call returns and leaves in a.
Outcome(found, e, panicked, c, f) ==
    [found |-> found, err |-> e, panicked |-> panicked, Config |-> c, File |-> f]

\* Lines 97-180: Generate on an asset holding config c and file f, with the
\* platform p among its parents; marshalOk tells whether yaml.Marshal succeeds.
Generate(c, f, p, marshalOk) ==
    IF ChosenPlatform(p) = "unknown"
    THEN Outcome(FALSE, Nil, TRUE, BaseConfig, f)
    ELSE LET config == [WithPlatform(BaseConfig, p) EXCEPT !.Machines = MachinePools(p)]
         IN  IF ~marshalOk
             THEN Outcome(FALSE, Wrap(<<Frame("marshal", "")>>,
                                      "failed to Marshal InstallConfig", ""),
                          FALSE, config, f)
             ELSE Outcome(FALSE, Nil, FALSE, config,
                          File(installConfigFilename, Marshal(config)))

\* Mutation of Files: the file is returned, nil or not.
FilesAlways(f) == <<f>>

\* Lines 188-193.
Files(f) == IF f.set THEN <<f>> ELSE <<>>

\* The documents install-config.yml can be found to hold, and the answers of
\* FetchByName: the file, no such file, or another error.
DiskData ==
    { Marshal([WithPlatform(BaseConfig, p) EXCEPT !.Machines = MachinePools(p)]) :
         p \in {[NoPlatform EXCEPT !.AWS = "aws"], [NoPlatform EXCEPT !.Libvirt = "libvirt"]} }
       \cup {[wellFormed |-> FALSE, doc |-> NoConfig]}

FetchByNameOutcomes ==
    {[kind |-> "ok", file |-> File(installConfigFilename, d)] : d \in DiskData}
       \cup {[kind |-> k, file |-> NoFile] : k \in {"not exist", "permission denied"}}

\* Mutation of LoadFetchError: every error of the fetch is returned.
LoadFetchErrorAll(kind) == <<Frame(kind, "")>>

\* Lines 203-208: the error Load returns when the fetch failed; os.IsNotExist
\* holds of the error of a file that is not there.
LoadFetchError(kind) == IF kind = "not exist" THEN Nil ELSE <<Frame(kind, "")>>

\* Mutation of LoadParseError: a file that does not parse counts as not found.
LoadParseErrorNone(e) == Nil

\* Lines 211-213: the error Load returns when Unmarshal failed with e.
LoadParseError(e) == Wrap(e, "failed to unmarshal", "")

\* Lines 201-217: Load on an asset holding config c and file f, with the
\* answer of FetchByName.
Load(c, f, fetch) ==
    IF fetch.kind # "ok"
    THEN Outcome(FALSE, LoadFetchError(fetch.kind), FALSE, c, f)
    ELSE IF Unmarshal(fetch.file.Data).err # Nil
    THEN Outcome(FALSE, LoadParseError(Unmarshal(fetch.file.Data).err), FALSE, c, f)
    ELSE Outcome(TRUE, Nil, FALSE, Unmarshal(fetch.file.Data).config, fetch.file)

\* A record of a call on a.
ICCall(op, fetch, p, gets, o) ==
    [op |-> op, fetch |-> fetch, platform |-> p, gets |-> gets,
     found |-> o.found, err |-> o.err, panicked |-> o.panicked]

NoFetch == [kind |-> "", file |-> NoFile]

NoCall == ICCall("", NoFetch, NoPlatform, <<>>, Outcome(FALSE, Nil, FALSE, NoConfig, NoFile))

\* a.Load(f) is called.
InstallConfigLoad ==
    /\ ~icPanicked
    /\ icCalls < MaxCalls
    /\ \E fetch \in FetchByNameOutcomes :
          LET o == Load(aConfig, aFile, fetch)
          IN  /\ aConfig' = o.Config
              /\ aFile' = o.File
              /\ icLast' = ICCall("Load", fetch, NoPlatform, <<>>, o)
              /\ icSucceeded' = (icSucceeded \/ o.found)
    /\ icCalls' = icCalls + 1
    /\ UNCHANGED <<icPanicked, target, pc, logged>>
    /\ UNCHANGED rtVars
    /\ UNCHANGED dbVars

\* a.Generate(parents) is called.
InstallConfigGenerate ==
    /\ ~icPanicked
    /\ icCalls < MaxCalls
    /\ \E p \in Platforms, marshalOk \in BOOLEAN :
          LET o == Generate(aConfig, aFile, p, marshalOk)
          IN  /\ aConfig' = o.Config
              /\ aFile' = o.File
              /\ icLast' = ICCall("Generate", NoFetch, p, GenerateGets, o)
              /\ icSucceeded' = (icSucceeded \/ (~o.panicked /\ o.err = Nil))
              /\ icPanicked' = o.panicked
    /\ icCalls' = icCalls + 1
    /\ UNCHANGED <<target, pc, logged>>
    /\ UNCHANGED rtVars
    /\ UNCHANGED dbVars

----------------------------------------------------------------------------
(* The specification *)

Init ==
    /\ target \in targets
    /\ pc = "rt_setup"
    /\ idx = 0
    /\ err = Nil
    /\ calls = <<>>
    /\ logged = <<>>
    /\ runErr = Nil
    /\ stores = 0
    /\ cache = {}
    /\ resolutions = [id \in Identities |-> 0]
    /\ now = 0
    /\ apiContext = NoContext
    /\ eventContext = NoContext
    /\ apiUp = FALSE
    /\ timer = 0
    /\ silenceRemaining = 0
    /\ previousErrorSuffix = <<>>
    /\ failedPolls = 0
    /\ lastSuffix = <<>>
    /\ sinceLogged = 0
    /\ cursor = 0
    /\ sinceResourceVersion = 0
    /\ attempts = 0
    /\ watchRV = 0
    /\ untilErr = Nil
    /\ sleepUntil = 0
    /\ lastEvent = NoEvent
    /\ verdict = Verdict(FALSE, <<>>)
    /\ destroyed = FALSE
    /\ postErr = Nil
    /\ aConfig = NoConfig
    /\ aFile = NoFile
    /\ icLast = NoCall
    /\ icCalls = 0
    /\ icSucceeded = FALSE
    /\ icPanicked = FALSE

Next ==
    \/ RunTargetSetup
    \/ RunTargetFetch
    \/ RunTargetPersist
    \/ RunTargetReturnNil
    \/ PostRun
    \/ DestroyBootstrapSetup
    \/ PollCheck
    \/ PollQuery
    \/ PollWait
    \/ EventWaitStart
    \/ UntilConnect
    \/ OpenerWatch
    \/ OpenerSleep
    \/ UntilOpenFailed
    \/ StreamDeliver
    \/ StreamClosed
    \/ StreamTimeout
    \/ AfterUntil
    \/ Tick

Spec == Init /\ [][Next]_vars

\* The calls on an InstallConfig asset, in any order.
NextInstallConfig ==
    \/ InstallConfigLoad
    \/ InstallConfigGenerate

InitInstallConfig ==
    /\ Init
    /\ target = "installConfigTarget"

SpecInstallConfig == InitInstallConfig /\ [][NextInstallConfig]_vars

----------------------------------------------------------------------------
(* Properties of runTargetCmd *)

\* RunE has returned.
Returned == pc \notin {"rt_setup", "rt_fetch", "rt_persist"}

\* The loop body ran for the asset of calls i (a Fetch) and i + 1.
FetchAt(i) == calls[i].fn = "Fetch"

\* The last asset the loop processed failed both to fetch and to persist.
BothFailed ==
    /\ Len(calls) >= 2
    /\ calls[Len(calls) - 1].fn = "Fetch" /\ ~calls[Len(calls) - 1].ok
    /\ calls[Len(calls)].fn = "PersistToFile" /\ ~calls[Len(calls)].ok

\* The last asset the loop processed was fetched, and failed to persist.
OnlyPersistFailed ==
    /\ Len(calls) >= 2
    /\ calls[Len(calls) - 1].fn = "Fetch" /\ calls[Len(calls) - 1].ok
    /\ calls[Len(calls)].fn = "PersistToFile" /\ ~calls[Len(calls)].ok

HasFrame(e, m) == \E i \in 1..Len(e) : e[i].msg = m

\* C1: every Fetch of the loop is followed by a PersistToFile of the same
\* asset, whether the Fetch failed or not; and when both failed, the command
\* returns the fetch error, and the write error is logged and is no part of
\* what is returned.
C1_FetchErrorWins ==
    /\ \A i \in 1..Len(calls) :
          FetchAt(i) =>
             IF i = Len(calls)
             THEN pc = "rt_persist"
             ELSE /\ calls[i + 1].fn = "PersistToFile"
                  /\ calls[i + 1].asset = calls[i].asset
    /\ (Returned /\ BothFailed) =>
          /\ runErr # Nil
          /\ runErr[1] = Frame("failed to fetch", calls[Len(calls)].asset)
          /\ ~HasFrame(runErr, "failed to write asset to disk")
    /\ (pc = "rt_returned" /\ BothFailed) =>
          logged = <<LogLine("error", "err2", calls[Len(calls)].asset)>>

C1_Witness == pc = "rt_returned" /\ BothFailed /\ Len(calls) = 4

\* Fetch and PersistToFile both succeeded for every asset of the target.
AllSucceeded ==
    /\ Len(calls) = 2 * Len(Assets)
    /\ \A k \in 1..Len(Assets) :
          /\ calls[2 * k - 1] = [fn |-> "Fetch", asset |-> Assets[k], ok |-> TRUE]
          /\ calls[2 * k] = [fn |-> "PersistToFile", asset |-> Assets[k], ok |-> TRUE]

\* C2: when the Fetch of an asset succeeded and its PersistToFile failed, the
\* command returns the write error, which is no fetch error; and the command
\* returns nil exactly when Fetch and PersistToFile succeeded for every asset
\* of the target.
C2_WriteErrorAndNil ==
    /\ (Returned /\ OnlyPersistFailed) =>
          /\ runErr # Nil
          /\ runErr[1] = Frame("failed to write asset to disk", calls[Len(calls)].asset)
          /\ ~HasFrame(runErr, "failed to fetch")
    /\ Returned => (runErr = Nil <=> AllSucceeded)

C2_Witness == pc = "rt_returned" /\ OnlyPersistFailed /\ Len(calls) = 6

----------------------------------------------------------------------------
(* Properties of destroyBootstrap *)

\* Until has been called and has not returned.
InEventWait == pc \in {"until_connect", "open_watch", "open_sleep", "open_failed", "streaming"}

\* destroyBootstrap has returned, having come as far as the event wait.
ReturnedAfterEventWait == pc = "exit" /\ eventContext.made

\* The error of a run whose event wait ran out of time.
EventStageTimeout == Wrap(ErrWaitTimeout, "waiting for bootstrap-complete", "")

\* C3: the wait for the bootstrap-complete event begins only after a
\* ServerVersion query has succeeded, never after an API wait that ended with
\* its deadline.
C3_EventWaitOnlyAfterApiUp == InEventWait => apiUp

\* C4: Destroy is invoked only in runs where a ServerVersion query succeeded
\* and then the bootstrap-complete event was seen; a run that missed either
\* signal invokes no Destroy and returns an error.
C4_DestroyOnlyAfterBothSignals ==
    /\ destroyed => (apiUp /\ verdict.done)
    /\ (ReturnedAfterEventWait /\ ~(apiUp /\ verdict.done)) =>
          (~destroyed /\ postErr # Nil)

\* C5: a run that fails on a deadline with the API never reachable returns
\* another error than a run where the API was reachable and the event never
\* came, which returns EventStageTimeout: that error is returned only by runs
\* in which a ServerVersion query succeeded.
C5_ErrorNamesStage == (pc = "exit" /\ postErr = EventStageTimeout) => apiUp

\* C6: the event wait has a deadline of its own, eventTimeout after the moment
\* the event context is made, whatever the API wait used up: the event context
\* is done only when that deadline has passed, be the API context cancelled,
\* expired or neither.
C6_IndependentDeadlines ==
    /\ [][(pc = "event_setup" /\ pc' = "until_connect") =>
             (eventContext'.deadline = now + eventTimeout /\ ~Done(eventContext)')]_vars
    /\ [](InEventWait => (Done(eventContext) <=> now >= eventContext.deadline))

C6_Witness ==
    /\ pc = "streaming"
    /\ ~Done(eventContext)
    /\ now > apiContext.deadline
    /\ ~apiContext.cancelled

\* C7: a Watch that fails while the event deadline has not passed is followed
\* by a sleep of retrySleep and another attempt; the opener returns an error
\* only when the deadline has passed; and a run whose event wait saw no
\* bootstrap-complete event ends with a 'waiting for bootstrap-complete' error
\* and no Destroy.
C7_RetryUntilDeadline ==
    /\ [][pc = "open_watch" =>
             \/ pc' = "streaming"
             \/ pc' = "open_sleep" /\ now < eventContext.deadline
                   /\ sleepUntil' = now + retrySleep
             \/ pc' = "open_failed" /\ now >= eventContext.deadline]_vars
    /\ [][pc = "open_sleep" => pc' \in {"open_sleep", "open_watch"}]_vars
    /\ [][pc = "open_failed" => (pc' = "until_return" /\ untilErr' # Nil)]_vars
    /\ []((ReturnedAfterEventWait /\ ~verdict.done) =>
             (~destroyed /\ postErr # Nil
                 /\ postErr[1].msg = "waiting for bootstrap-complete"))

\* The opener slept at least once and gave up; no event was ever delivered.
C7_Witness ==
    /\ pc = "exit"
    /\ postErr = EventStageTimeout
    /\ sleepUntil > 0
    /\ cursor = 0
    /\ lastEvent = NoEvent

\* C8: the expiry of the event deadline interrupts the opener's sleep: no
\* connection attempt that follows a sleep starts after the deadline.
C8_ExpiryInterruptsSleep ==
    (pc = "open_watch" /\ attempts > 0) => now <= eventContext.deadline

\* C9, as claimed: the predicate reports done for a delivered event exactly
\* when the event's name is 'bootstrap-complete'.
C9_DoneIffNameOriginal ==
    lastEvent # NoEvent =>
       (verdict.done <=> lastEvent.object.name = "bootstrap-complete")

\* C9, amended: the predicate reports done for a delivered event exactly when
\* the event is of type Added, its object is an Event, and the name is exactly
\* 'bootstrap-complete'; an event of any other name never completes the wait.
C9_DoneIffAddedAndName ==
    /\ lastEvent # NoEvent =>
          (verdict.done <=>
              /\ lastEvent.type = "ADDED"
              /\ lastEvent.object.kind = "Event"
              /\ lastEvent.object.name = "bootstrap-complete")
    /\ (pc = "until_return" /\ untilErr = Nil) =>
          lastEvent.object.name = "bootstrap-complete"
    /\ destroyed => lastEvent.object.name = "bootstrap-complete"

C9_Witness ==
    /\ pc = "until_return"
    /\ untilErr = Nil
    /\ verdict.done
    /\ cursor = 2

\* C10: for every error event, whatever its object, the predicate logs a line
\* and returns (false, nil).
C10_ErrorEventLoggedAndSkipped ==
    lastEvent.type = "ERROR" =>
       (verdict.log # <<>> /\ ~verdict.done /\ verdict.err = Nil)

\* C11: a failed ServerVersion query logs a line exactly when it is the first
\* failed query, or its error suffix (the text after the last ':', maybe
\* empty) differs from that of the failed query before it, or it is the
\* logDownsample-th failed query since the last one that logged; so there are
\* never logDownsample failed queries in a row without a line.
C11_LogOnFirstChangeOrRepeat ==
    /\ [][failedPolls' = failedPolls + 1 =>
             (logged' # <<>> <=>
                 \/ failedPolls = 0
                 \/ lastSuffix' # lastSuffix
                 \/ sinceLogged = logDownsample - 1)]_vars
    /\ [](sinceLogged < logDownsample)

\* The opener is running.
InOpener == pc \in {"open_watch", "open_sleep"}

\* C12: the event wait starts with the empty cursor; every Watch call of the
\* opener, the first and every one after a failed one, asks for the resource
\* version the opener was handed, which the opener never changes and which is
\* the cursor; so a new connection resumes after the last event consumed.
C12_WatchFromCursor ==
    /\ [][(pc = "event_setup" /\ pc' = "until_connect") => cursor' = 0]_vars
    /\ [][pc = "open_watch" =>
             /\ watchRV' = sinceResourceVersion
             /\ sinceResourceVersion' = sinceResourceVersion]_vars
    /\ [][pc = "open_sleep" => sinceResourceVersion' = sinceResourceVersion]_vars
    /\ [](InOpener => sinceResourceVersion = cursor)
    /\ [][(pc = "open_watch" /\ pc' = "streaming") => watchRV' = cursor]_vars

\* A Watch call after a failed one, from the cursor behind one consumed event.
C12_Witness ==
    /\ pc = "open_watch"
    /\ attempts > 0
    /\ sinceResourceVersion = 1
    /\ watchRV = 1

----------------------------------------------------------------------------
(* Properties of InstallConfig *)

\* The last call was a Load, and what its fetch gave.
LoadReturned == icLast.op = "Load"

FileMissing == LoadReturned /\ icLast.fetch.kind = "not exist"

FileMalformed ==
    /\ LoadReturned
    /\ icLast.fetch.kind = "ok"
    /\ ~icLast.fetch.file.Data.wellFormed

FileUnreadable == LoadReturned /\ icLast.fetch.kind \notin {"ok", "not exist"}

\* The step is a call of Load.
LoadStep == icCalls' = icCalls + 1 /\ icLast'.op = "Load"

\* C13: Load returns (false, nil) when there is no install-config.yml, and
\* (false, an error) when the file is there and does not parse, so a corrupted
\* file is never reported as not found; a Load that returns found = false
\* leaves a.File and a.Config as they were.
C13_LoadNotFoundOrCorrupt ==
    /\ [](FileMissing => ~icLast.found /\ icLast.err = Nil)
    /\ [](FileMalformed => ~icLast.found /\ icLast.err # Nil)
    /\ [][(LoadStep /\ ~icLast'.found) => (aFile' = aFile /\ aConfig' = aConfig)]_vars

\* A Load of a corrupted file on an asset that already holds a file.
C13_Witness ==
    /\ FileMalformed
    /\ ~icLast.found
    /\ icLast.err # Nil
    /\ aFile.set
    /\ aConfig.set

\* C14 as stated: an error of Load means the file exists and did not parse.
C14_ErrorOnlyMalformedOriginal == [](LoadReturned /\ icLast.err # Nil => FileMalformed)

\* C14: Load returns an error only when the file exists and did not parse, and
\* then the parse error wrapped, or when the fetch failed with an error other
\* than the file not existing, and then that error; a missing file and a file
\* that parses give no error.
C14_ErrorOnlyMalformedOrUnreadable ==
    /\ [](LoadReturned /\ icLast.err # Nil => (FileMalformed \/ FileUnreadable))
    /\ [](FileMalformed => HasFrame(icLast.err, "failed to unmarshal"))
    /\ [](FileUnreadable => icLast.err = <<Frame(icLast.fetch.kind, "")>>)

\* A Load whose fetch failed with another error than the file not existing.
C14_Witness ==
    /\ FileUnreadable
    /\ icLast.err # Nil
    /\ ~icLast.found

\* The last call was a Generate.
GenerateReturned == icLast.op = "Generate"

\* The last call was a Generate that returned nil.
GenerateSucceeded == GenerateReturned /\ ~icLast.panicked /\ icLast.err = Nil

\* C15: a Generate whose platform has none of AWS, OpenStack and Libvirt set
\* returns an error to its caller.
C15_UnknownPlatformReturnsError ==
    (GenerateReturned /\ icLast.platform = NoPlatform)
        => (~icLast.panicked /\ icLast.err # Nil)

\* C16: the assets Generate asks its parents for are the assets Dependencies
\* returns, no more and no fewer.
C16_GetsOnlyDependencies ==
    GenerateReturned =>
        /\ Range(icLast.gets) = Range(Dependencies)
        /\ \A i \in 1..Len(icLast.gets) : icLast.gets[i] \in Range(Dependencies)

\* A Generate that read the platform of its parents.
C16_Witness ==
    /\ GenerateSucceeded
    /\ "platform" \in Range(icLast.gets)
    /\ aConfig.AWS = "aws"

\* The step is a call of Load that found the file.
LoadFoundStep == LoadStep /\ icLast'.found

\* C17: Files is empty until a Generate or a Load has succeeded; from then on
\* it is one file named install-config.yml; and after a Load that found the
\* file it is the file fetched, its bytes as they were fetched.
C17_FilesOnlyAfterSuccess ==
    /\ [](Files(aFile) # <<>> => icSucceeded)
    /\ [](icSucceeded =>
             /\ Len(Files(aFile)) = 1
             /\ Files(aFile)[1].set
             /\ Files(aFile)[1].Filename = installConfigFilename)
    /\ [][LoadFoundStep =>
             /\ Files(aFile') = <<icLast'.fetch.file>>
             /\ Files(aFile')[1].Data = icLast'.fetch.file.Data]_vars

\* A Load, not the first call on the asset, that found the file.
C17_Witness ==
    /\ LoadReturned
    /\ icLast.found
    /\ icCalls > 1
    /\ Files(aFile) = <<icLast.fetch.file>>
    /\ aFile.Data.doc.Libvirt = "libvirt"

\* The platform sections of a config that are set.
SectionsSet(c) ==
    {n \in {"AWS", "OpenStack", "Libvirt"} :
        \/ n = "AWS" /\ c.AWS # "nil"
        \/ n = "OpenStack" /\ c.OpenStack # "nil"
        \/ n = "Libvirt" /\ c.Libvirt # "nil"}

\* The variant the claim's precedence gives for a platform.
FirstPresent(p) ==
    IF p.AWS # "nil" THEN "AWS"
    ELSE IF p.OpenStack # "nil" THEN "OpenStack"
    ELSE "Libvirt"

\* C20: after a Generate that returned nil, one platform section of the config
\* is set, the first present of AWS, OpenStack, Libvirt in the platform asset,
\* and the machine pools are master and worker, in this order, both with 1
\* replica when Libvirt was chosen and both with 3 otherwise.
C20_PlatformPrecedenceAndReplicas ==
    GenerateSucceeded =>
        /\ SectionsSet(aConfig) = {FirstPresent(icLast.platform)}
        /\ Len(aConfig.Machines) = 2
        /\ aConfig.Machines[1].Name = "master"
        /\ aConfig.Machines[2].Name = "worker"
        /\ aConfig.Machines[1].Replicas = aConfig.Machines[2].Replicas
        /\ aConfig.Machines[1].Replicas \in {1, 3}
        /\ (aConfig.Machines[1].Replicas = 1 <=> SectionsSet(aConfig) = {"Libvirt"})

\* A Generate with OpenStack and Libvirt present: OpenStack is chosen, 3 and 3.
C20_Witness ==
    /\ GenerateSucceeded
    /\ icLast.platform = [AWS |-> "nil", OpenStack |-> "openstack", Libvirt |-> "libvirt"]
    /\ aConfig.OpenStack = "openstack"
    /\ aConfig.Machines[1].Replicas = 3

----------------------------------------------------------------------------
(* Properties of the loop of runTargetCmd and of its Store *)

\* The step is a Fetch of the loop.
FetchStep == pc = "rt_fetch" /\ pc' = "rt_persist"

\* C18: one Store is made, before the loop; every Fetch of the loop goes
\* through it, so its cache only grows and holds the asset fetched and all it
\* depends on; and no identity has its resolution invoked twice in the run.
C18_OneStoreOneResolution ==
    /\ [](stores <= 1)
    /\ [](pc \in {"rt_fetch", "rt_persist"} => stores = 1)
    /\ [][FetchStep => (cache \subseteq cache' /\ Closure(Assets[idx]) \subseteq cache')]_vars
    /\ [](\A id \in Identities : resolutions[id] <= 1)

\* The two roots of the manifests target were fetched: the install config,
\* which both depend on, was resolved once.
C18_Witness ==
    /\ target = "manifestsTarget"
    /\ Len(calls) = 4
    /\ calls[3] = Call("Fetch", "manifests.Openshift", Nil)
    /\ resolutions["installconfig.InstallConfig"] = 1
    /\ resolutions["manifests.Openshift"] = 1
    /\ resolutions["platform"] = 1

\* The calls for the k-th asset of the loop both succeeded.
PairOk(k) == calls[2 * k - 1].ok /\ calls[2 * k].ok

\* C19: the calls are a Fetch and a PersistToFile for each asset, in the
\* declared order of the target; an asset whose Fetch or PersistToFile failed
\* is the last one processed, with one call of each, and the command has
\* returned; a command that returned an error from the loop failed on its last
\* asset, one that returned nil processed all; and no call follows the return.
C19_InOrderStopAtFirstFailure ==
    /\ [](\A i \in 1..Len(calls) :
             /\ calls[i].asset = Assets[(i + 1) \div 2]
             /\ calls[i].fn = IF i % 2 = 1 THEN "Fetch" ELSE "PersistToFile")
    /\ [](Len(calls) <= 2 * Len(Assets))
    /\ [](\A k \in 1..(Len(calls) \div 2) :
             ~PairOk(k) => (Len(calls) = 2 * k /\ Returned /\ runErr # Nil))
    /\ []((Returned /\ runErr # Nil /\ calls # <<>>) =>
             /\ Len(calls) % 2 = 0
             /\ ~PairOk(Len(calls) \div 2))
    /\ []((Returned /\ runErr = Nil) => AllSucceeded)
    /\ [][Returned => calls' = calls]_vars

\* The second of three assets failed to fetch: it was fetched once and
\* persisted once, the first succeeded, the third was never touched.
C19_Witness ==
    /\ target = "ignitionConfigsTarget"
    /\ Returned
    /\ runErr # Nil
    /\ Len(calls) = 4
    /\ PairOk(1)
    /\ ~calls[3].ok
    /\ calls[3].asset = "machine.Master"
    /\ calls[4].asset = "machine.Master"

====
